---- MODULE Spec2Model ----
(* Model of server.js: the three POST endpoints (/api/extract,              *)
(* /api/create-tasks, /api/process-meeting), the Monday.com helper          *)
(* functions they call and the remote answers they await.  One action is    *)
(* one synchronous run of a handler between two awaits.                     *)
EXTENDS Integers, Sequences, FiniteSets, TLC

\* ---------------------------------------------------------------- bounds
\* Longest actionItems array a client or the language model supplies.
MaxItems == 2
\* Longest actionItems array of a request in the two-client specification.
MaxConcItems == 2

\* ------------------------------------------------------ program constants
\* server.js:220 and :356, "meetingNotes.trim().length < 50".
MinNotesLength == 50

\* ------------------------------------------------------------ request ids
\* Two clients; process-meeting's own HTTP call to /api/create-tasks is a
\* further request of the same server, Sub(c).
Clients == {"A", "B"}
Sub(c) == IF c = "A" THEN "A.sub" ELSE "B.sub"
Subs == {Sub(c) : c \in Clients}
Rids == Clients \cup Subs

\* ------------------------------------------------------------- deadlines
\* An item's deadline as the JSON body carries it: absent, a relative
\* phrase ("next Tuesday"), an ISO date ("2025-01-20"), or an ISO date-time
\* with a UTC offset in hours ("2025-12-31T23:00:00-05:00").
NoDeadline == [kind |-> "none", y |-> 0, m |-> 0, d |-> 0, hh |-> 0, off |-> 0]
Phrase == [kind |-> "phrase", y |-> 0, m |-> 0, d |-> 0, hh |-> 0, off |-> 0]
IsoDate(y, m, d) == [kind |-> "date", y |-> y, m |-> m, d |-> d, hh |-> 0, off |-> 0]
IsoDateTime(y, m, d, hh, off) ==
    [kind |-> "datetime", y |-> y, m |-> m, d |-> d, hh |-> hh, off |-> off]

\* Days since 1970-01-01 of a proleptic Gregorian date (what Date.parse
\* computes for the date part).
DaysFromCivil(y, m, d) ==
    LET yy == IF m <= 2 THEN y - 1 ELSE y
        era == yy \div 400
        yoe == yy - era * 400
        mp == IF m > 2 THEN m - 3 ELSE m + 9
        doy == (153 * mp + 2) \div 5 + d - 1
        doe == yoe * 365 + yoe \div 4 - yoe \div 100 + doy
    IN era * 146097 + doe - 719468

\* The UTC calendar date of a day number (what toISOString prints).
CivilFromDays(z0) ==
    LET z == z0 + 719468
        era == z \div 146097
        doe == z - era * 146097
        yoe == (doe - doe \div 1460 + doe \div 36524 - doe \div 146096) \div 365
        doy == doe - (365 * yoe + yoe \div 4 - yoe \div 100)
        mp == (5 * doy + 2) \div 153
        d == doy - (153 * mp + 2) \div 5 + 1
        m == IF mp < 10 THEN mp + 3 ELSE mp - 9
        y == yoe + era * 400 + (IF m <= 2 THEN 1 ELSE 0)
    IN [y |-> y, m |-> m, d |-> d]

\* new Date(item.deadline): the time value, here in hours since the epoch
\* (every modelled deadline is a whole hour), or invalid (NaN).
DateParse(dl) ==
    IF dl.kind \in {"date", "datetime"}
    THEN [valid |-> TRUE,
          tv |-> DaysFromCivil(dl.y, dl.m, dl.d) * 24 + dl.hh - dl.off]
    ELSE [valid |-> FALSE, tv |-> 0]

\* A slip that reads the date in a zone one hour behind UTC instead of UTC.
ToISODateLocal(tv) == CivilFromDays((tv - 1) \div 24)
\* date.toISOString().split('T')[0]: the UTC calendar date of the instant.
ToISODate(tv) == CivilFromDays(tv \div 24)

\* ----------------------------------------------------------------- items
Item(title, dl, prio) == [task_title |-> title, deadline |-> dl, priority |-> prio]
It1 == Item("t1", IsoDate(2025, 1, 20), "high")
It2 == Item("t2", Phrase, "")
It3 == Item("t3", NoDeadline, "low")
It4 == Item("t4", IsoDateTime(2025, 12, 31, 23, 0 - 5), "")
Items == {It1, It2, It3, It4}

RECURSIVE SeqsUpTo(_, _)
SeqsUpTo(S, n) ==
    IF n = 0 THEN {<<>>}
    ELSE LET prev == SeqsUpTo(S, n - 1)
         IN prev \cup {Append(s, x) : s \in {t \in prev : Len(t) = n - 1}, x \in S}

\* ---------------------------------------------------- the remote services
\* What api.monday.com sends back to one POST: the transport may fail (fetch
\* or response.json() rejects), or the body carries "errors", or "data".
NoCreated == [id |-> [by |-> "", call |-> 0], name |-> ""]
MondayData(boards, item) == [boards |-> boards, create_item |-> item]
TransportFailure == [transport |-> "fail", errors |-> FALSE, data |-> MondayData(<<>>, NoCreated)]
ApiErrors == [transport |-> "ok", errors |-> TRUE, data |-> MondayData(<<>>, NoCreated)]
DataAnswer(d) == [transport |-> "ok", errors |-> FALSE, data |-> d]

Board1 == [id |-> "b1", name |-> "Roadmap",
           groups |-> <<[id |-> "g1"], [id |-> "g2"]>>,
           columns |-> <<[id |-> "c1", type |-> "text"], [id |-> "d1", type |-> "date"],
                         [id |-> "d2", type |-> "date"]>>]
Board2 == [id |-> "b2", name |-> "Backlog",
           groups |-> <<>>,
           columns |-> <<[id |-> "s1", type |-> "status"]>>]
NoBoard == [id |-> "", name |-> "", groups |-> <<>>, columns |-> <<>>]
RemoteBoards == <<Board1, Board2>>

BoardsAnswers == {TransportFailure, ApiErrors, DataAnswer(MondayData(RemoteBoards, NoCreated))}
\* create_item answers for the call number k of request r: the remote names
\* the fresh item after the call that created it and echoes the name.
CreateAnswers(r, k, name) ==
    {TransportFailure, ApiErrors,
     DataAnswer(MondayData(<<>>, [id |-> [by |-> r, call |-> k], name |-> name]))}
UpdateAnswers == {TransportFailure, ApiErrors, DataAnswer(MondayData(<<>>, NoCreated))}

\* A variant that hands back the body although it carries "errors".
mondayRequestNoCheck(ans) ==
    IF ans.transport = "fail"
    THEN [threw |-> TRUE, message |-> "fetch failed", data |-> ans.data]
    ELSE [threw |-> FALSE, message |-> "", data |-> ans.data]
\* mondayRequest: throws when fetch/json rejects or when data.errors is set.
mondayRequest(ans) ==
    IF ans.transport = "fail"
    THEN [threw |-> TRUE, message |-> "fetch failed", data |-> ans.data]
    ELSE IF ans.errors
         THEN [threw |-> TRUE, message |-> "Monday.com API Error", data |-> ans.data]
         ELSE [threw |-> FALSE, message |-> "", data |-> ans.data]

\* The items the language model extracts.
ExtractedItems == {It1, It3}

\* What the language model call yields: the call fails (ok = FALSE), or its
\* text, after the code-fence stripping of lines 177-181, is no JSON
\* (json = FALSE), or it parses to a value with this action_items field.
NoItemsField == [kind |-> "missing", items |-> <<>>]
ArrayOf(items) == [kind |-> "array", items |-> items]
LLMAnswers ==
    {[ok |-> FALSE, json |-> FALSE, action_items |-> NoItemsField],
     [ok |-> TRUE, json |-> FALSE, action_items |-> NoItemsField],
     [ok |-> TRUE, json |-> TRUE, action_items |-> NoItemsField]}
    \cup {[ok |-> TRUE, json |-> TRUE, action_items |-> ArrayOf(s)] :
             s \in SeqsUpTo(ExtractedItems, MaxItems)}

\* extractActionItems: throws when the model call fails or JSON.parse does.
extractActionItems(ans) ==
    IF ~ans.ok
    THEN [threw |-> TRUE, message |-> "model call failed", value |-> NoItemsField]
    ELSE IF ~ans.json
         THEN [threw |-> TRUE, message |-> "Unexpected token", value |-> NoItemsField]
         ELSE [threw |-> FALSE, message |-> "", value |-> ans.action_items]

\* ------------------------------------------------------- request bodies
\* meetingNotes: absent, or a string of lead whitespace characters, a core
\* of core characters that neither starts nor ends with whitespace, and
\* trail whitespace characters.
NoNotes == [present |-> FALSE, lead |-> 0, core |-> 0, trail |-> 0]
Notes(lead, core, trail) == [present |-> TRUE, lead |-> lead, core |-> core, trail |-> trail]
StrLen(n) == n.lead + n.core + n.trail
\* A variant that leaves the surrounding whitespace in place.
TrimNothing(n) == n
\* String.prototype.trim
Trim(n) == [n EXCEPT !.lead = 0, !.trail = 0]

\* !meetingNotes || meetingNotes.trim().length < 50
NotesInvalid(n) == ~n.present \/ StrLen(n) = 0 \/ StrLen(Trim(n)) < MinNotesLength

ShortNotes ==
    {NoNotes, Notes(0, 0, 0), Notes(3, 0, 0), Notes(0, MinNotesLength - 1, 0),
     Notes(1, MinNotesLength - 1, 1), Notes(30, 1, 30)}
LongNotes == {Notes(1, MinNotesLength, 0)}

\* actionItems of a body: absent, a value that is no array, or an array.
NotArray == [kind |-> "notarray", items |-> <<>>]
ActionItemsValues == {NoItemsField, NotArray} \cup {ArrayOf(s) : s \in SeqsUpTo(Items, MaxItems)}

Body(notes, title, ai, boardId, groupId, auto) ==
    [meetingNotes |-> notes, meetingTitle |-> title, actionItems |-> ai,
     boardId |-> boardId, groupId |-> groupId, autoCreate |-> auto]
NoBody == Body(NoNotes, "", NoItemsField, "", "", "absent")

\* Strings "" stand for undefined/null/"" (all falsy in a || b).
BoardIds == {"", "b1", "b2", "b9"}
GroupIds == {"", "g2"}
MeetingTitles == {"Weekly sync"}
ExtractBodies ==
    {Body(n, "", NoItemsField, "", "", "absent") : n \in ShortNotes \cup LongNotes}
CreateBodies ==
    {Body(NoNotes, t, ai, b, g, "absent") :
       t \in MeetingTitles, ai \in ActionItemsValues, b \in BoardIds, g \in GroupIds}
ProcessBodies ==
    {Body(n, "", NoItemsField, b, g, a) :
       n \in ShortNotes \cup LongNotes, b \in {"", "b1", "b2"}, g \in GroupIds,
       a \in {"absent", "false", "true"}}

\* ------------------------------------------------------------------ state
VARIABLES
    config,    \* process.env: [defaultBoardId] (line 247), read-only after startup
    req,       \* req[r]: endpoint and body of request r (lines 218, 238, 354),
               \* and (history) the clients whose handlers were suspended
               \* when it arrived
    pc,        \* pc[r]: the await the handler of r is suspended at
    loc,       \* loc[r]: the handler's local variables (lines 247-278, 301, 364)
    results,   \* results[scope], errors[scope]: the arrays of lines 280-281
    errors,
    calls,     \* calls[r]: the remote calls r issued, in order, each with what
               \* the remote answered (history of lines 23-33, 157, 386)
    resp       \* resp[r]: the response sent (status 0: none yet)

vars == <<config, req, pc, loc, results, errors, calls, resp>>

NoResp == [status |-> 0, body |-> [success |-> FALSE, shape |-> "none"]]
NoColumn == [id |-> "", type |-> ""]
NoLoc == [targetBoardId |-> "", board |-> NoBoard, targetGroupId |-> "",
          dateColumn |-> NoColumn, statusColumn |-> NoColumn,
          personColumn |-> NoColumn, i |-> 0, created |-> NoCreated,
          extraction |-> NoItemsField]

\* One remote call as the client helper issues it.
Call(op, idx, boardId, groupId, itemName, cols, itemId, note) ==
    [op |-> op, idx |-> idx, boardId |-> boardId, groupId |-> groupId,
     itemName |-> itemName, columnValues |-> cols, itemId |-> itemId,
     note |-> note, state |-> "inflight", answer |-> "pending",
     reply |-> NoItemsField]
NoNote == [title |-> "", priority |-> "", deadline |-> NoDeadline]

\* The part of the state one handler run reads and writes.
View(r) == [pc |-> pc[r], loc |-> loc[r], calls |-> calls[r], resp |-> resp[r],
            results |-> results, errors |-> errors]
Commit(r, v) ==
    /\ pc' = [pc EXCEPT ![r] = v.pc]
    /\ loc' = [loc EXCEPT ![r] = v.loc]
    /\ calls' = [calls EXCEPT ![r] = v.calls]
    /\ resp' = [resp EXCEPT ![r] = v.resp]
    /\ results' = v.results
    /\ errors' = v.errors

\* res.status(s).json(b) / res.json(b), then return.
Respond(v, status, body) ==
    [v EXCEPT !.pc = "done", !.resp = [status |-> status, body |-> body]]
Failure(msg) == [success |-> FALSE, shape |-> "error", error |-> msg]
\* Issue a remote call and suspend at its await.
Await(v, at, call) == [v EXCEPT !.pc = at, !.calls = Append(@, call)]
\* What the remote sent: "fail" (transport), "errors" or "data".
AnswerKind(ans) ==
    IF ans.transport = "fail" THEN "fail" ELSE IF ans.errors THEN "errors" ELSE "data"
\* The awaited (last) call has come back with ans.
Settle(v, ans) ==
    [v EXCEPT !.calls[Len(v.calls)].state = "done",
              !.calls[Len(v.calls)].answer = AnswerKind(ans)]

\* ------------------------------------------- POST /api/create-tasks handler
\* a || b on strings
Or(a, b) == IF a # "" THEN a ELSE b

\* !actionItems || !Array.isArray(actionItems) || actionItems.length === 0
ActionItemsInvalid(ai) == ai.kind # "array" \/ Len(ai.items) = 0

\* boardId || process.env.MONDAY_DEFAULT_BOARD_ID
TargetBoardId(body, cfg) == Or(body.boardId, cfg.defaultBoardId)

\* boards.find(b => b.id === targetBoardId)
FindBoard(boards, id) ==
    LET hits == {k \in 1..Len(boards) : boards[k].id = id}
    IN IF hits = {} THEN NoBoard
       ELSE boards[CHOOSE k \in hits : \A j \in hits : k <= j]

\* A variant that always takes the board's first group.
TargetGroupIdFirst(body, board) ==
    IF Len(board.groups) > 0 THEN board.groups[1].id ELSE ""
\* groupId || board.groups[0]?.id
TargetGroupId(body, board) ==
    Or(body.groupId, IF Len(board.groups) > 0 THEN board.groups[1].id ELSE "")

\* board.columns.find(c => c.type === t1 || c.type === t2 ...)
FindColumn(board, types) ==
    LET hits == {k \in 1..Len(board.columns) : board.columns[k].type \in types}
    IN IF hits = {} THEN NoColumn
       ELSE board.columns[CHOOSE k \in hits : \A j \in hits : k <= j]

\* Lines 286-298: the column-value map of one item, as its set of entries.
ColumnValues(dateColumn, item) ==
    IF dateColumn.id # "" /\ item.deadline.kind # "none"
       /\ DateParse(item.deadline).valid
    THEN {[col |-> dateColumn.id, date |-> ToISODate(DateParse(item.deadline).tv)]}
    ELSE {}

\* Lines 309-318: the context note, by the fields it embeds.
ContextNote(body, item) ==
    [title |-> Or(body.meetingTitle, "Untitled"),
     priority |-> Or(item.priority, "Medium"),
     deadline |-> item.deadline]

\* A variant that keeps the arrays in one place for all requests.
ResultsScopeShared(r) == "A"
\* Where "const results = []; const errors = [];" live: in the request's
\* own invocation of the handler.
ResultsScope(r) == r

\* Lines 336-344: the batch result.
BatchResult(r, v) ==
    [success |-> TRUE, shape |-> "batch",
     created |-> Len(v.results[ResultsScope(r)]),
     failed |-> Len(v.errors[ResultsScope(r)]),
     results |-> v.results[ResultsScope(r)],
     errors |-> v.errors[ResultsScope(r)],
     board |-> [id |-> v.loc.board.id, name |-> v.loc.board.name],
     group |-> [id |-> v.loc.targetGroupId]]

\* The top of loop iteration i (line 283), run to its first await or, past
\* the last item, to the response.
Iterate(r, v, body, i) ==
    IF i > Len(body.actionItems.items)
    THEN Respond(v, 200, BatchResult(r, v))
    ELSE LET item == body.actionItems.items[i]
         IN Await([v EXCEPT !.loc.i = i], "awaitCreate",
                  Call("create_item", i, v.loc.targetBoardId, v.loc.targetGroupId,
                       item.task_title, ColumnValues(v.loc.dateColumn, item),
                       NoCreated.id, NoNote))

\* A variant whose catch gives up on the whole batch.
ItemFailedAborts(r, v, body, msg) == Respond(v, 500, Failure(msg))
\* Lines 327-333: the per-item catch, then the next iteration.
ItemFailed(r, v, body, msg) ==
    Iterate(r,
            [v EXCEPT !.errors[ResultsScope(r)] =
                Append(@, [success |-> FALSE, error |-> msg,
                           original |-> body.actionItems.items[v.loc.i]])],
            body, v.loc.i + 1)

\* Lines 322-326: record the success, then the next iteration.
ItemSucceeded(r, v, body) ==
    Iterate(r,
            [v EXCEPT !.results[ResultsScope(r)] =
                Append(@, [success |-> TRUE, item |-> v.loc.created,
                           original |-> body.actionItems.items[v.loc.i]])],
            body, v.loc.i + 1)

\* Lines 237-256: validation, then the board list is asked for.
createTasksEntry(r, v, body, cfg) ==
    IF ActionItemsInvalid(body.actionItems)
    THEN Respond(v, 400, Failure("No action items provided"))
    ELSE IF TargetBoardId(body, cfg) = ""
         THEN Respond(v, 400, Failure("No board ID specified and no default configured"))
         ELSE Await([v EXCEPT !.loc.targetBoardId = TargetBoardId(body, cfg)], "awaitBoards",
                    Call("boards", 0, "", "", "", {}, NoCreated.id, NoNote))

\* Lines 256-283: the board list is back; resolve board, group and columns
\* and enter the loop.
afterBoards(r, v0, body, ans) ==
    LET v == Settle(v0, ans)
        res == mondayRequest(ans)
        board == FindBoard(res.data.boards, v.loc.targetBoardId)
        group == TargetGroupId(body, board)
    IN IF res.threw THEN Respond(v, 500, Failure(res.message))
       ELSE IF board = NoBoard THEN Respond(v, 404, Failure("Board not found"))
       ELSE IF group = "" THEN Respond(v, 400, Failure("No group available in the board"))
       ELSE Iterate(r,
                    [v EXCEPT !.loc.board = board, !.loc.targetGroupId = group,
                              !.loc.dateColumn = FindColumn(board, {"date"}),
                              !.loc.statusColumn = FindColumn(board, {"status", "color"}),
                              !.loc.personColumn = FindColumn(board, {"people"}),
                              !.results[ResultsScope(r)] = <<>>,
                              !.errors[ResultsScope(r)] = <<>>],
                    body, 1)

\* A variant that attaches the note with the id of no item.
NoteItemIdStale(created) == NoCreated.id
\* created.id, the first argument of addItemUpdate (line 320).
NoteItemId(created) == created.id

\* A variant that does not wait for the note before going on.
AttachNoteDetached(r, v, body, created) ==
    ItemSucceeded(r,
        [v EXCEPT !.loc.created = created,
                  !.calls = Append(@, Call("create_update", v.loc.i, "", "", "", {},
                                           NoteItemId(created),
                                           ContextNote(body, body.actionItems.items[v.loc.i])))],
        body)
\* Lines 308-320: await addItemUpdate(created.id, contextNote).
AttachNote(r, v, body, created) ==
    Await([v EXCEPT !.loc.created = created], "awaitUpdate",
          Call("create_update", v.loc.i, "", "", "", {}, NoteItemId(created),
               ContextNote(body, body.actionItems.items[v.loc.i])))

\* Lines 301-320: createMondayItem has come back.
afterCreate(r, v0, body, ans) ==
    LET v == Settle(v0, ans)
        res == mondayRequest(ans)
    IN IF res.threw THEN ItemFailed(r, v, body, res.message)
       ELSE AttachNote(r, v, body, res.data.create_item)

\* Lines 320-333: addItemUpdate has come back.
afterUpdate(r, v0, body, ans) ==
    LET v == Settle(v0, ans)
        res == mondayRequest(ans)
    IN IF res.threw THEN ItemFailed(r, v, body, res.message)
       ELSE ItemSucceeded(r, v, body)

\* ------------------------------ POST /api/extract and /api/process-meeting
LLMCall == Call("llm", 0, "", "", "", {}, NoCreated.id, NoNote)
LocalCall == Call("local_create_tasks", 0, "", "", "", {}, NoCreated.id, NoNote)

\* Lines 218-227 and 354-364: validation, then the model is asked.
notesEntry(v, body) ==
    IF NotesInvalid(body.meetingNotes)
    THEN Respond(v, 400, Failure("Meeting notes must be at least 50 characters"))
    ELSE Await(v, "awaitLLM", LLMCall)

\* The language model's outcome as the log records it.
SettleLLM(v, ext) ==
    [v EXCEPT !.calls[Len(v.calls)].state = "done",
              !.calls[Len(v.calls)].answer = IF ext.threw THEN "fail" ELSE "data",
              !.calls[Len(v.calls)].reply = ext.value]

\* Lines 227-232: /api/extract after extractActionItems.
afterLLMExtract(v0, body, ans) ==
    LET ext == extractActionItems(ans)
        v == SettleLLM(v0, ext)
    IN IF ext.threw THEN Respond(v, 500, Failure(ext.message))
       ELSE Respond(v, 200, [success |-> TRUE, shape |-> "extract",
                             action_items |-> ext.value])

\* A variant whose default creates unless told not to.
AutoCreateEager(body) == body.autoCreate # "false"
\* autoCreate = false (the destructuring default of line 354), then !autoCreate.
AutoCreate(body) == body.autoCreate = "true"

\* Lines 364-395: /api/process-meeting after extractActionItems.
afterLLMProcess(v0, body, ans) ==
    LET ext == extractActionItems(ans)
        v == SettleLLM(v0, ext)
    IN IF ext.threw THEN Respond(v, 500, Failure(ext.message))
       ELSE IF ext.value.kind = "missing" \/ Len(ext.value.items) = 0
       THEN Respond(v, 200, [success |-> TRUE, shape |-> "noitems",
                             action_items |-> ArrayOf(<<>>)])
       ELSE IF ~AutoCreate(body)
       THEN Respond(v, 200, [success |-> TRUE, shape |-> "review",
                             action_items |-> ext.value])
       ELSE Await([v EXCEPT !.loc.extraction = ext.value], "awaitLocal", LocalCall)

\* Lines 389-394: the body process-meeting posts to /api/create-tasks.
LocalBody(body, extraction) ==
    Body(NoNotes, body.meetingTitle, extraction, body.boardId, body.groupId, "absent")

\* Lines 397-404: the local call is back; its JSON body is embedded.
afterLocal(v0, body, subResp) ==
    LET v == [v0 EXCEPT !.calls[Len(v0.calls)].state = "done",
                        !.calls[Len(v0.calls)].answer = "data"]
    IN Respond(v, 200, [success |-> TRUE, shape |-> "pipeline",
                        action_items |-> v.loc.extraction,
                        creation_result |-> subResp.body])

\* ---------------------------------------------------------------- actions
Init ==
    /\ config \in {[defaultBoardId |-> b] : b \in {"", "b1"}}
    /\ req = [r \in Rids |-> [endpoint |-> "none", body |-> NoBody, during |-> {}]]
    /\ pc = [r \in Rids |-> "idle"]
    /\ loc = [r \in Rids |-> NoLoc]
    /\ results = [r \in Rids |-> <<>>]
    /\ errors = [r \in Rids |-> <<>>]
    /\ calls = [r \in Rids |-> <<>>]
    /\ resp = [r \in Rids |-> NoResp]

\* The clients whose handlers are suspended at an await.
Suspended == {c \in Clients : pc[c] \notin {"idle", "done"}}

\* A client posts to /api/extract.
ArriveExtract(c) ==
    /\ pc[c] = "idle"
    /\ \E body \in ExtractBodies :
         /\ req' = [req EXCEPT ![c] = [endpoint |-> "extract", body |-> body, during |-> Suspended]]
         /\ Commit(c, notesEntry(View(c), body))
    /\ UNCHANGED config

\* A client posts to /api/process-meeting.
ArriveProcess(c) ==
    /\ pc[c] = "idle"
    /\ \E body \in ProcessBodies :
         /\ req' = [req EXCEPT ![c] = [endpoint |-> "process", body |-> body, during |-> Suspended]]
         /\ Commit(c, notesEntry(View(c), body))
    /\ UNCHANGED config

\* A client posts body to /api/create-tasks.
ArriveCreate(c, body) ==
    /\ pc[c] = "idle"
    /\ req' = [req EXCEPT ![c] = [endpoint |-> "create", body |-> body,
                                  during |-> Suspended]]
    /\ Commit(c, createTasksEntry(c, View(c), body, config))
    /\ UNCHANGED config

\* The language model call of r settles.
LLMAnswer(r) ==
    /\ pc[r] = "awaitLLM"
    /\ \E ans \in LLMAnswers :
         LET v == IF req[r].endpoint = "extract"
                  THEN afterLLMExtract(View(r), req[r].body, ans)
                  ELSE afterLLMProcess(View(r), req[r].body, ans)
         IN IF v.pc = "awaitLocal"
            THEN \* fetch(localhost/api/create-tasks): the request is on its way
                 /\ req' = [req EXCEPT ![Sub(r)] =
                              [endpoint |-> "create",
                               body |-> LocalBody(req[r].body, v.loc.extraction),
                               during |-> Suspended]]
                 /\ pc' = [pc EXCEPT ![r] = v.pc, ![Sub(r)] = "sent"]
                 /\ loc' = [loc EXCEPT ![r] = v.loc]
                 /\ calls' = [calls EXCEPT ![r] = v.calls]
                 /\ UNCHANGED <<resp, results, errors>>
            ELSE Commit(r, v) /\ UNCHANGED req
    /\ UNCHANGED config

\* The server takes up the request process-meeting sent to itself.
LocalDeliver(s) ==
    /\ pc[s] = "sent"
    /\ Commit(s, createTasksEntry(s, View(s), req[s].body, config))
    /\ UNCHANGED <<config, req>>

\* process-meeting reads the response of its own create-tasks request.
LocalAnswer(c) ==
    /\ pc[c] = "awaitLocal"
    /\ pc[Sub(c)] = "done"
    /\ Commit(c, afterLocal(View(c), req[c].body, resp[Sub(c)]))
    /\ UNCHANGED <<config, req>>

\* The board list call of r settles.
BoardsAnswer(r) ==
    /\ pc[r] = "awaitBoards"
    /\ \E ans \in BoardsAnswers : Commit(r, afterBoards(r, View(r), req[r].body, ans))
    /\ UNCHANGED <<config, req>>

\* The create_item call of r settles.
CreateAnswer(r) ==
    /\ pc[r] = "awaitCreate"
    /\ \E ans \in CreateAnswers(r, Len(calls[r]), calls[r][Len(calls[r])].itemName) :
         Commit(r, afterCreate(r, View(r), req[r].body, ans))
    /\ UNCHANGED <<config, req>>

\* The create_update call of r settles.
UpdateAnswer(r) ==
    /\ pc[r] = "awaitUpdate"
    /\ \E ans \in UpdateAnswers : Commit(r, afterUpdate(r, View(r), req[r].body, ans))
    /\ UNCHANGED <<config, req>>

Settles(r) ==
    BoardsAnswer(r) \/ CreateAnswer(r) \/ UpdateAnswer(r)

\* One client, any endpoint, any body.
Next ==
    \/ ArriveExtract("A")
    \/ ArriveProcess("A")
    \/ \E body \in CreateBodies : ArriveCreate("A", body)
    \/ \E r \in Rids : LLMAnswer(r)
    \/ \E s \in Subs : LocalDeliver(s)
    \/ \E c \in Clients : LocalAnswer(c)
    \/ \E r \in Rids : Settles(r)

Spec == Init /\ [][Next]_vars

\* Two clients post to /api/create-tasks; their handlers interleave at the
\* awaits.  Each client sends copies of its own item, A to board b1 and its
\* first group, B to board b2 and group g2.
ConcItem(c) == IF c = "A" THEN It1 ELSE It2
ConcBodies(c) ==
    {Body(NoNotes, "", ArrayOf(s),
          IF c = "A" THEN "b1" ELSE "b2", IF c = "A" THEN "" ELSE "g2", "absent") :
       s \in SeqsUpTo({ConcItem(c)}, MaxConcItems) \ {<<>>}}

InitConc == Init /\ config.defaultBoardId = "b1"

NextConc ==
    \/ \E c \in Clients : \E body \in ConcBodies(c) : ArriveCreate(c, body)
    \/ \E c \in Clients : Settles(c)

SpecConc == InitConc /\ [][NextConc]_vars

\* ================================================================ claims
\* Vocabulary of the properties: read off the requests, the call logs and
\* the responses.
Done(r) == pc[r] = "done"
CreateReqs == {r \in Rids : req[r].endpoint = "create"}
ItemsOf(r) == req[r].body.actionItems.items
CallsOf(r, op) == {k \in 1..Len(calls[r]) : calls[r][k].op = op}
CallsFor(r, op, i) == {k \in CallsOf(r, op) : calls[r][k].idx = i}
CallFailed(r, k) == calls[r][k].answer \in {"fail", "errors"}
CallOk(r, k) == calls[r][k].answer = "data"
\* Item i of r had a remote call (create or note) that failed.
ItemFailedRemotely(r, i) ==
    \E k \in CallsFor(r, "create_item", i) \cup CallsFor(r, "create_update", i) :
        CallFailed(r, k)
FailedItems(r) == {i \in 1..Len(ItemsOf(r)) : ItemFailedRemotely(r, i)}
\* The handler of r got past board and group resolution.
Resolved(r) == r \in CreateReqs /\ loc[r].targetGroupId # ""
IsBatch(r) == resp[r].status = 200 /\ resp[r].body.shape = "batch"
Originals(list) == [k \in 1..Len(list) |-> list[k].original]
RECURSIVE PickUpTo(_, _, _)
PickUpTo(seq, S, n) ==
    IF n = 0 THEN <<>>
    ELSE IF n \in S THEN Append(PickUpTo(seq, S, n - 1), seq[n])
         ELSE PickUpTo(seq, S, n - 1)
\* The subsequence of seq at the positions in S.
Pick(seq, S) == PickUpTo(seq, S, Len(seq))
\* The message the client helper throws for a failed call.
MessageOfAnswer(kind) == IF kind = "fail" THEN "fetch failed" ELSE "Monday.com API Error"

\* C1 (batch isolation): once board and group are resolved, a finished
\* create-tasks request answers with the batch result; its errors carry, in
\* input order, exactly the items one of whose remote calls failed, its
\* results exactly the others, created + failed = N, every item (also one
\* after a failing item) had its create call, and with exactly one failing
\* item k: created = N-1, failed = 1 and the error's original is item k.
C1_BatchIsolation ==
    \A r \in CreateReqs :
        (Done(r) /\ Resolved(r)) =>
            LET N == Len(ItemsOf(r))
                F == FailedItems(r)
                b == resp[r].body
            IN /\ IsBatch(r)
               /\ b.created + b.failed = N
               /\ b.created = Len(b.results) /\ b.failed = Len(b.errors)
               /\ Originals(b.errors) = Pick(ItemsOf(r), F)
               /\ Originals(b.results) = Pick(ItemsOf(r), (1..N) \ F)
               /\ \A i \in 1..N : CallsFor(r, "create_item", i) # {}
               /\ \A k \in 1..N :
                     F = {k} => /\ b.created = N - 1
                                /\ b.failed = 1
                                /\ b.errors[1].original = ItemsOf(r)[k]

\* C1 witness: a finished batch of two different items whose first item
\* failed remotely and whose second was still created.
C1_Witness ==
    \E r \in CreateReqs :
        /\ Done(r) /\ IsBatch(r)
        /\ Len(ItemsOf(r)) = 2 /\ ItemsOf(r)[1] # ItemsOf(r)[2]
        /\ FailedItems(r) = {1}
        /\ resp[r].body.created = 1 /\ resp[r].body.failed = 1
        /\ resp[r].body.errors[1].original = ItemsOf(r)[1]
        /\ resp[r].body.results[1].original = ItemsOf(r)[2]

\* What the handler's own checks decide from the request, the configuration
\* and the board list the remote sent.
InputInvalid(r) ==
    \/ req[r].body.actionItems.kind # "array"
    \/ Len(ItemsOf(r)) = 0
    \/ (req[r].body.boardId = "" /\ config.defaultBoardId = "")
WantedBoardId(r) ==
    IF req[r].body.boardId # "" THEN req[r].body.boardId ELSE config.defaultBoardId
BoardsFetchFailed(r) == \E k \in CallsOf(r, "boards") : CallFailed(r, k)
BoardsFetched(r) == \E k \in CallsOf(r, "boards") : CallOk(r, k)
BoardMissing(r) ==
    BoardsFetched(r) /\ \A k \in 1..Len(RemoteBoards) : RemoteBoards[k].id # WantedBoardId(r)
GroupMissing(r) ==
    /\ BoardsFetched(r)
    /\ req[r].body.groupId = ""
    /\ \E k \in 1..Len(RemoteBoards) :
          RemoteBoards[k].id = WantedBoardId(r) /\ Len(RemoteBoards[k].groups) = 0
ValidationFails(r) == InputInvalid(r) \/ BoardMissing(r) \/ GroupMissing(r)

\* C2 as stated: unless one of the validation checks fails, a finished
\* create-tasks request answers 200 with success:true, whatever remote call
\* failed.
C2_OnlyValidationIsFatal ==
    \A r \in CreateReqs :
        (Done(r) /\ ~ValidationFails(r)) =>
            (resp[r].status = 200 /\ resp[r].body.success)

\* C2 (amended): a finished create-tasks request fails as a whole exactly
\* when a validation check fails (400, or 404 for a board not found) or the
\* board-list fetch fails (500); otherwise it answers 200 success:true, and
\* every item whose create or note call failed is in errors with the message
\* of that failure.
C2_FatalOnlyBeforeLoop ==
    \A r \in CreateReqs :
        Done(r) =>
            /\ (~resp[r].body.success) <=> (ValidationFails(r) \/ BoardsFetchFailed(r))
            /\ InputInvalid(r) => resp[r].status = 400
            /\ BoardsFetchFailed(r) => resp[r].status = 500
            /\ BoardMissing(r) => resp[r].status = 404
            /\ GroupMissing(r) => resp[r].status = 400
            /\ resp[r].body.success =>
                  /\ resp[r].status = 200
                  /\ Len(resp[r].body.errors) = Cardinality(FailedItems(r))
                  /\ \A i \in FailedItems(r) :
                        \E e \in 1..Len(resp[r].body.errors) :
                          \E k \in CallsFor(r, "create_item", i)
                                    \cup CallsFor(r, "create_update", i) :
                            /\ CallFailed(r, k)
                            /\ resp[r].body.errors[e].original = ItemsOf(r)[i]
                            /\ resp[r].body.errors[e].error
                                 = MessageOfAnswer(calls[r][k].answer)
                            /\ ~resp[r].body.errors[e].success

\* C2 witness: a finished request that answered 200 success:true although a
\* create call was rejected by the remote and a note call failed in
\* transport.
C2_Witness ==
    \E r \in CreateReqs :
        /\ Done(r) /\ resp[r].status = 200 /\ resp[r].body.success
        /\ \E k \in CallsOf(r, "create_item") : calls[r][k].answer = "errors"
        /\ \E k \in CallsOf(r, "create_update") : calls[r][k].answer = "fail"
        /\ resp[r].body.failed = 2

\* C3 (fail-fast validation): a request to /api/extract or
\* /api/process-meeting whose notes are missing or shorter than 50
\* characters once trimmed, and a request to /api/create-tasks whose
\* actionItems is missing, no array or empty, or that has neither a board id
\* nor a configured default, is answered 400 {success:false, error} and has
\* issued no call to the language model or to the task-tracking service.
C3_FailFastValidation ==
    \A r \in Rids :
        LET n == req[r].body.meetingNotes
            bad == \/ /\ req[r].endpoint \in {"extract", "process"}
                      /\ (~n.present \/ n.core < MinNotesLength)
                   \/ /\ req[r].endpoint = "create" /\ pc[r] # "sent"
                      /\ InputInvalid(r)
        IN bad => /\ Done(r)
                  /\ resp[r].status = 400
                  /\ ~resp[r].body.success
                  /\ resp[r].body.shape = "error"
                  /\ calls[r] = <<>>
                  /\ (r \in Clients => pc[Sub(r)] = "idle" /\ calls[Sub(r)] = <<>>)

\* C3 witness: a process-meeting request whose notes are 51 characters long
\* but 49 once trimmed was answered 400 without any call.
C3_Witness ==
    \E r \in Rids :
        /\ req[r].endpoint = "process"
        /\ req[r].body.meetingNotes.present
        /\ StrLen(req[r].body.meetingNotes) > MinNotesLength
        /\ req[r].body.meetingNotes.core < MinNotesLength
        /\ Done(r) /\ resp[r].status = 400 /\ calls[r] = <<>>

ProcessReqs == {c \in Clients : req[c].endpoint = "process"}
TaskOps == {"boards", "create_item", "create_update"}
\* What the extraction of process-meeting request c returned, once it did.
Extracted(c) == calls[c][1].reply
ExtractionReturned(c) == Len(calls[c]) >= 1 /\ calls[c][1].op = "llm" /\ CallOk(c, 1)
\* The Task-Creation Stage was invoked for c: its request was sent.
StageInvoked(c) == pc[Sub(c)] # "idle" \/ CallsOf(c, "local_create_tasks") # {}

\* C4 (creation is gated): process-meeting invokes the Task-Creation Stage
\* only if autoCreate is true and the extraction returned at least one
\* item.  With autoCreate false or absent the extracted items are returned
\* for review and no board-list, create-item or note call is issued; with a
\* missing or empty action_items the stage is skipped even when autoCreate
\* is true.
C4_CreationGated ==
    \A c \in ProcessReqs :
        /\ \A k \in 1..Len(calls[c]) : calls[c][k].op \notin TaskOps
        /\ StageInvoked(c) =>
              /\ req[c].body.autoCreate = "true"
              /\ ExtractionReturned(c)
              /\ Extracted(c).kind = "array" /\ Len(Extracted(c).items) >= 1
        /\ req[c].body.autoCreate # "true" =>
              /\ calls[Sub(c)] = <<>>
              /\ (Done(c) /\ ExtractionReturned(c) /\ Len(Extracted(c).items) >= 1) =>
                    /\ resp[c].status = 200 /\ resp[c].body.shape = "review"
                    /\ resp[c].body.action_items = Extracted(c)
        /\ (Done(c) /\ ExtractionReturned(c) /\ Len(Extracted(c).items) = 0) =>
              /\ ~StageInvoked(c)
              /\ resp[c].status = 200 /\ resp[c].body.shape = "noitems"

\* C4 witness: a finished process-meeting request without autoCreate in its
\* body whose extraction found two items: they were returned for review
\* and nothing was sent to the Task-Creation Stage.
C4_Witness ==
    \E c \in ProcessReqs :
        /\ Done(c) /\ req[c].body.autoCreate = "absent"
        /\ ExtractionReturned(c) /\ Len(Extracted(c).items) = 2
        /\ resp[c].body.shape = "review"
        /\ ~StageInvoked(c)

\* C5 as stated: with autoCreate true the pipeline returns the stage's
\* result beside the extraction, and when the Task-Creation Stage failed
\* (its response is success:false) the pipeline's own response is
\* {success:false, error} with a 4xx/5xx status.
C5_StageFailureFailsPipeline ==
    \A c \in ProcessReqs :
        (Done(c) /\ StageInvoked(c)) =>
            /\ resp[c].body.shape = "pipeline" => resp[c].body.creation_result = resp[Sub(c)].body
            /\ ~resp[Sub(c)].body.success =>
                  /\ ~resp[c].body.success
                  /\ resp[c].status >= 400

\* C6 (sequential calls): within one request the remote calls are issued
\* one after the other in input order: no call is issued while an earlier
\* call of the request is in flight (so at most one is in flight), the
\* create calls are for items 1, 2, 3, ... in that order, and a note call
\* comes directly after the create call of its own item.
C6_StrictlySequential ==
    \A r \in Rids :
        /\ Cardinality({k \in 1..Len(calls[r]) : calls[r][k].state = "inflight"}) <= 1
        /\ \A k \in 1..Len(calls[r]) :
              /\ k < Len(calls[r]) => calls[r][k].state = "done"
              /\ calls[r][k].op = "create_item" =>
                    calls[r][k].idx = 1 + Cardinality({j \in CallsOf(r, "create_item") : j < k})
              /\ calls[r][k].op = "create_update" =>
                    /\ k > 1
                    /\ calls[r][k - 1].op = "create_item"
                    /\ calls[r][k - 1].idx = calls[r][k].idx

\* C6 witness: the create call of the second item is in flight after the
\* create call and the note call of the first item have both come back.
C6_Witness ==
    \E r \in CreateReqs :
        /\ Len(calls[r]) = 4
        /\ calls[r][2].op = "create_item" /\ calls[r][2].idx = 1 /\ calls[r][2].state = "done"
        /\ calls[r][3].op = "create_update" /\ calls[r][3].idx = 1 /\ calls[r][3].state = "done"
        /\ calls[r][4].op = "create_item" /\ calls[r][4].idx = 2
        /\ calls[r][4].state = "inflight"

\* The calendar date an item's deadline stands for: the date of an ISO date
\* as written; for the date-time 2025-12-31T23:00-05:00 the date of that
\* instant in its ISO (UTC) form, 2026-01-01.
DeadlineHasDate(item) == item.deadline.kind \in {"date", "datetime"}
DeadlineDate(item) ==
    IF item.deadline.kind = "date"
    THEN [y |-> item.deadline.y, m |-> item.deadline.m, d |-> item.deadline.d]
    ELSE [y |-> 2026, m |-> 1, d |-> 1]
DateColumnIds(board) ==
    {board.columns[k].id : k \in {j \in 1..Len(board.columns) : board.columns[j].type = "date"}}
\* The board of the remote list that r targets.
RemoteBoardOf(r) ==
    RemoteBoards[CHOOSE k \in 1..Len(RemoteBoards) : RemoteBoards[k].id = WantedBoardId(r)]

\* C7 (deadline handling): the column values sent with an item's create
\* call hold one entry, for the board's (first) date column with the
\* calendar date of the deadline, exactly when the board has a date column
\* and the deadline parses to a date; they are empty otherwise.  An item
\* with an absent or unparseable deadline is still created: it has its
\* create call, and ends in errors only if a remote call of its own failed.
C7_DeadlineColumn ==
    \A r \in CreateReqs :
        /\ \A k \in CallsOf(r, "create_item") :
              LET item == ItemsOf(r)[calls[r][k].idx]
                  board == RemoteBoardOf(r)
                  cv == calls[r][k].columnValues
              IN IF DateColumnIds(board) # {} /\ DeadlineHasDate(item)
                 THEN /\ Cardinality(cv) = 1
                      /\ \A e \in cv :
                            /\ e.col \in DateColumnIds(board)
                            /\ e.col = "d1"
                            /\ e.date = DeadlineDate(item)
                 ELSE cv = {}
        /\ (Done(r) /\ Resolved(r)) =>
              \A i \in 1..Len(ItemsOf(r)) :
                  ~DeadlineHasDate(ItemsOf(r)[i]) =>
                      /\ CallsFor(r, "create_item", i) # {}
                      /\ (\A k \in CallsFor(r, "create_item", i) \cup CallsFor(r, "create_update", i) :
                             CallOk(r, k))
                           => \E e \in 1..Len(resp[r].body.results) :
                                 /\ resp[r].body.results[e].original = ItemsOf(r)[i]
                                 /\ calls[r][resp[r].body.results[e].item.id.call].idx = i

\* C7 witness: the end-to-end scenario: a board with date column d1, one
\* item with deadline 2025-01-20 and one without, first group g1: created
\* 2, failed 0, and exactly one create call carried a date, 2025-01-20.
C7_Witness ==
    \E r \in CreateReqs :
        /\ Done(r) /\ IsBatch(r)
        /\ ItemsOf(r) = <<It1, It3>>
        /\ resp[r].body.created = 2 /\ resp[r].body.failed = 0
        /\ resp[r].body.group.id = "g1"
        /\ calls[r][2].columnValues = {[col |-> "d1", date |-> [y |-> 2025, m |-> 1, d |-> 20]]}
        /\ calls[r][4].columnValues = {}

\* The group a request asks for: the explicit one, else the first group of
\* the board it targets.
WantedGroupId(r) ==
    IF req[r].body.groupId # "" THEN req[r].body.groupId
    ELSE RemoteBoardOf(r).groups[1].id
ItemCalls(r) == CallsOf(r, "create_item") \cup CallsOf(r, "create_update")
\* The handler of r got past its input checks (it is no longer waiting to
\* be taken up, and its input was valid).
PastInputChecks(r) == r \in CreateReqs /\ pc[r] # "sent" /\ ~InputInvalid(r)

\* C8 (board and group resolution): a create-tasks request that passes its
\* input checks fetches the board list exactly once (no request fetches it
\* twice); if the list holds no board with the target id it is answered 404,
\* and if no group id is given and the board has no group it is answered
\* 400, in both cases without any create-item or note call; otherwise every
\* create-item call carries the target board id and one and the same group
\* id, the explicit one if given, else the board's first group, and that
\* group id (with the board's id) is what the response reports.
C8_BoardAndGroupResolution ==
    \A r \in CreateReqs :
        /\ Cardinality(CallsOf(r, "boards")) <= 1
        /\ PastInputChecks(r) => Cardinality(CallsOf(r, "boards")) = 1
        /\ (Done(r) /\ BoardMissing(r)) =>
              /\ resp[r].status = 404 /\ ~resp[r].body.success
              /\ ItemCalls(r) = {}
        /\ (Done(r) /\ GroupMissing(r)) =>
              /\ resp[r].status = 400 /\ ~resp[r].body.success
              /\ ItemCalls(r) = {}
        /\ \A k \in CallsOf(r, "create_item") :
              /\ calls[r][k].boardId = WantedBoardId(r)
              /\ calls[r][k].groupId = WantedGroupId(r)
        /\ (Done(r) /\ resp[r].body.success) =>
              /\ resp[r].body.group.id = WantedGroupId(r)
              /\ resp[r].body.board.id = WantedBoardId(r)

\* C8 witness: a finished batch on board b1, whose first group is g1, with
\* the explicit group g2: its create call and its response carry g2.
C8_Witness ==
    \E r \in CreateReqs :
        /\ Done(r) /\ IsBatch(r)
        /\ req[r].body.groupId = "g2" /\ WantedBoardId(r) = "b1"
        /\ \E k \in CallsOf(r, "create_item") : calls[r][k].groupId = "g2"
        /\ resp[r].body.group.id = "g2"
        /\ Cardinality(CallsOf(r, "boards")) = 1

\* Both calls of item i came back with data.
ItemBothOk(r, i) ==
    /\ \E k \in CallsFor(r, "create_item", i) : CallOk(r, k)
    /\ \E k \in CallsFor(r, "create_update", i) : CallOk(r, k)
\* The item indices the results of r's response stand for: each result
\* carries the id the remote gave, which names the create call.
ResultItems(r) ==
    {calls[r][resp[r].body.results[e].item.id.call].idx : e \in 1..Len(resp[r].body.results)}

\* C9 (per-item protocol, no retries): no item has more than one create
\* call or more than one note call, and in a finished batch every item has
\* exactly one create call; a note call is issued only after the item's
\* create call came back with data and carries the id that call returned;
\* an item is in results if and only if both of its calls succeeded, so an
\* item whose create succeeded and whose note failed is counted in failed
\* and not in created.
C9_PerItemProtocol ==
    \A r \in CreateReqs :
        /\ \A i \in 1..Len(ItemsOf(r)) :
              /\ Cardinality(CallsFor(r, "create_item", i)) <= 1
              /\ Cardinality(CallsFor(r, "create_update", i)) <= 1
              /\ \A u \in CallsFor(r, "create_update", i) :
                    \E k \in CallsFor(r, "create_item", i) :
                        /\ k < u
                        /\ CallOk(r, k)
                        /\ calls[r][u].itemId = [by |-> r, call |-> k]
              /\ \A k \in CallsFor(r, "create_item", i) :
                    CallFailed(r, k) => CallsFor(r, "create_update", i) = {}
        /\ (Done(r) /\ Resolved(r)) =>
              /\ IsBatch(r)
              /\ \A i \in 1..Len(ItemsOf(r)) :
                    /\ Cardinality(CallsFor(r, "create_item", i)) = 1
                    /\ i \in ResultItems(r) <=> ItemBothOk(r, i)
              /\ resp[r].body.created = Cardinality({i \in 1..Len(ItemsOf(r)) : ItemBothOk(r, i)})
              /\ resp[r].body.failed =
                    Cardinality({i \in 1..Len(ItemsOf(r)) : ~ItemBothOk(r, i)})
              /\ \A e \in 1..Len(resp[r].body.results) :
                    LET k == resp[r].body.results[e].item.id.call
                    IN /\ k \in CallsOf(r, "create_item")
                       /\ resp[r].body.results[e].item.name = calls[r][k].itemName
                       /\ resp[r].body.results[e].original = ItemsOf(r)[calls[r][k].idx]

\* C9 witness: a finished one-item batch whose create call succeeded and
\* whose note call failed: created 0, failed 1, the item in errors.
C9_Witness ==
    \E r \in CreateReqs :
        /\ Done(r) /\ IsBatch(r) /\ Len(ItemsOf(r)) = 1
        /\ \E k \in CallsFor(r, "create_item", 1) : CallOk(r, k)
        /\ \E k \in CallsFor(r, "create_update", 1) : CallFailed(r, k)
        /\ resp[r].body.created = 0 /\ resp[r].body.failed = 1
        /\ resp[r].body.errors[1].original = ItemsOf(r)[1]

\* The run of client request c on its own, fed the answers c's own calls
\* got, from item i on, whose create call is call k of c: the results and
\* errors it ends with.
RECURSIVE AloneLoop(_, _, _, _, _)
AloneLoop(c, i, k, res, err) ==
    IF i > Len(ItemsOf(c)) THEN [results |-> res, errors |-> err]
    ELSE LET item == ItemsOf(c)[i]
             failure(kind) == [success |-> FALSE, error |-> MessageOfAnswer(kind),
                               original |-> item]
         IN IF calls[c][k].answer # "data"
            THEN AloneLoop(c, i + 1, k + 1, res, Append(err, failure(calls[c][k].answer)))
            ELSE IF calls[c][k + 1].answer # "data"
            THEN AloneLoop(c, i + 1, k + 2, res, Append(err, failure(calls[c][k + 1].answer)))
            ELSE AloneLoop(c, i + 1, k + 2,
                           Append(res, [success |-> TRUE,
                                        item |-> [id |-> [by |-> c, call |-> k],
                                                  name |-> item.task_title],
                                        original |-> item]),
                           err)
\* The response c gets when it runs alone against those answers.
AloneResponse(c) ==
    IF InputInvalid(c)
    THEN [status |-> 400, body |-> Failure(IF ActionItemsInvalid(req[c].body.actionItems)
                                           THEN "No action items provided"
                                           ELSE "No board ID specified and no default configured")]
    ELSE IF calls[c][1].answer # "data"
    THEN [status |-> 500, body |-> Failure(MessageOfAnswer(calls[c][1].answer))]
    ELSE IF BoardMissing(c) THEN [status |-> 404, body |-> Failure("Board not found")]
    ELSE IF GroupMissing(c)
    THEN [status |-> 400, body |-> Failure("No group available in the board")]
    ELSE LET out == AloneLoop(c, 1, 2, <<>>, <<>>)
         IN [status |-> 200,
             body |-> [success |-> TRUE, shape |-> "batch",
                       created |-> Len(out.results), failed |-> Len(out.errors),
                       results |-> out.results, errors |-> out.errors,
                       board |-> [id |-> RemoteBoardOf(c).id, name |-> RemoteBoardOf(c).name],
                       group |-> [id |-> WantedGroupId(c)]]]

\* C10 (request independence): when two create-tasks requests interleave
\* at their awaits, the results and errors of each response hold the items
\* of its own request only, one entry per item, and each response (counts,
\* results, errors, board, group) is the one the request gets when it runs
\* alone against the same remote answers.
C10_RequestIndependence ==
    \A c \in Clients :
        (Done(c) /\ req[c].endpoint = "create") =>
            /\ resp[c] = AloneResponse(c)
            /\ resp[c].body.success =>
                  /\ \A e \in 1..Len(resp[c].body.results) :
                        /\ resp[c].body.results[e].original = ConcItem(c)
                        /\ resp[c].body.results[e].item.id.by = c
                  /\ \A e \in 1..Len(resp[c].body.errors) :
                        resp[c].body.errors[e].original = ConcItem(c)
                  /\ Len(resp[c].body.results) + Len(resp[c].body.errors) = Len(ItemsOf(c))

\* C10 witness: B arrived while A's handler was suspended, both finished
\* with a batch result on different boards, A with a failed item and B with
\* a created one.
C10_Witness ==
    /\ Done("A") /\ Done("B")
    /\ req["B"].during = {"A"}
    /\ IsBatch("A") /\ IsBatch("B")
    /\ resp["A"].body.board.id # resp["B"].body.board.id
    /\ resp["A"].body.failed >= 1
    /\ resp["B"].body.created >= 1

====
